---- MODULE Spec2Model ----
(***************************************************************************)
(* State-machine model of the hybrid course recommendation core:           *)
(*   ai/recommendation_engine.py  (RecommendationEngine)                   *)
(*   ai/embeddings_manager.py     (EmbeddingsManager)                      *)
(*   ai/ml_predictor.py           (MLPredictor.predict_performance)        *)
(*   student.py                   (Student)                                *)
(*   api/routes/recommendations.py (get_recommendations)                   *)
(*   ai/student_audit.py          (calculate_status)                       *)
(*                                                                         *)
(* Floats are fixed-point integers: a score s is the integer s * SCALE,    *)
(* a grade g is the integer g * GRADE_SCALE; divisions floor at that       *)
(* resolution.                                                             *)
(***************************************************************************)
EXTENDS Integers, Sequences, FiniteSets, TLC

\* ---------------------------------------------------------------- bounds
MaxCompleted == 2
MaxEnrolled == 1
MaxN == 2
MaxPredFaults == 1
MaxBatch == 2
MaxDim == 2
MaxComponent == 2
MaxPercent == 100

\* ----------------------------------------------------------- fixed point
SCALE == 100 * 100
GRADE_SCALE == 10 * 10

Min(a, b) == IF a < b THEN a ELSE b
Max(a, b) == IF a > b THEN a ELSE b

\* Python's round(x, 2) at the resolution of the model
Round2(x) == ((x + (SCALE \div 200)) \div (SCALE \div 100)) * (SCALE \div 100)

RECURSIVE SumSeq(_)
SumSeq(s) == IF s = <<>> THEN 0 ELSE Head(s) + SumSeq(Tail(s))

Range(s) == {s[i] : i \in DOMAIN s}

\* x in list
InList(x, s) == \E i \in DOMAIN s : s[i] = x

\* a local variable: evaluate e once, then continue with its value
Bind(e, Body(_)) == CHOOSE out \in {Body(v) : v \in {e}} : TRUE

\* -------------------------------------------------------------- catalog
\* RecommendationEngine._load_courses: the sample catalog, in source order
\* (description and learning objectives only feed the course text).
courses ==
  << [name |-> "Python Fundamentals", prerequisites |-> <<>>,
      difficulty |-> "beginner", category |-> "programming"],
     [name |-> "Advanced Python", prerequisites |-> <<"Python Fundamentals">>,
      difficulty |-> "intermediate", category |-> "programming"],
     [name |-> "Data Structures and Algorithms", prerequisites |-> <<"Python Fundamentals">>,
      difficulty |-> "intermediate", category |-> "computer_science"],
     [name |-> "Machine Learning Fundamentals",
      prerequisites |-> <<"Python Fundamentals", "Math for Machine Learning">>,
      difficulty |-> "intermediate", category |-> "machine_learning"],
     [name |-> "Deep Learning", prerequisites |-> <<"Machine Learning Fundamentals">>,
      difficulty |-> "advanced", category |-> "machine_learning"],
     [name |-> "Web Development with Flask", prerequisites |-> <<"Python Fundamentals">>,
      difficulty |-> "intermediate", category |-> "web_development"],
     [name |-> "Data Science with Python", prerequisites |-> <<"Python Fundamentals">>,
      difficulty |-> "intermediate", category |-> "data_science"],
     [name |-> "Math for Machine Learning", prerequisites |-> <<>>,
      difficulty |-> "intermediate", category |-> "mathematics"] >>

CourseNames == {courses[i].name : i \in DOMAIN courses}

\* position of a catalog course in self.courses
CatalogIndex(name) == CHOOSE i \in DOMAIN courses : courses[i].name = name

\* Python's str ordering of the catalog names (rank 1 = smallest)
NameRank(name) ==
  CASE name = "Advanced Python" -> 1
    [] name = "Data Science with Python" -> 2
    [] name = "Data Structures and Algorithms" -> 3
    [] name = "Deep Learning" -> 4
    [] name = "Machine Learning Fundamentals" -> 5
    [] name = "Math for Machine Learning" -> 6
    [] name = "Python Fundamentals" -> 7
    [] name = "Web Development with Flask" -> 8

\* strategy weights set in __init__, in hundredths
weights == [semantic |-> 40, ml_prediction |-> 35, collaborative |-> 25]

\* ---------------------------------------------------------------- inputs
\* course names a student record can hold (one is not in the catalog)
StudentCourses == {"Python Fundamentals", "Math for Machine Learning", "Database Systems II"}
\* grades passed to complete_course (no validation in the source)
GradeValues == {90, 150}
Strategies == {"hybrid", "semantic", "ml", "collaborative"}
PredictorOutcomes == {"ok", "fallback", "raise"}

VARIABLES
  student,           \* Student: completed_courses, enrolled_courses, grades
  embeddings_cache,  \* EmbeddingsManager.embeddings_cache: key -> vector
  cache_file,        \* ai/outputs/embeddings_cache.json: [exists, data]
  request,           \* arguments and collaborator behaviour of the request in progress
  ranked,            \* recommend's local list "recommendations" before "[:N]"
  result,            \* what recommend returned (or that it raised)
  provider_calls,    \* inputs of the client.embeddings.create calls of the request
  predictor_calls,   \* course names passed to predict_performance in the request
  call,              \* the last call of the engine, of a manager method or of a
                     \* pure function, with its arguments and its outcome
  writers            \* the EmbeddingsManager instances that share the cache
                     \* file, each with its cache and its position in a call

vars == <<student, embeddings_cache, cache_file, request, ranked, result,
          provider_calls, predictor_calls, call, writers>>

EmptyCache == <<>>
NoRequest == [strategy |-> "none", n |-> 0, pred |-> <<>>, failAt |-> 0, ioFail |-> "none"]
NoCall == [op |-> "none"]
NoWriters == <<>>
\* no file at ai/outputs/embeddings_cache.json
NoFile == [exists |-> FALSE, valid |-> FALSE, data |-> {}]
NoResult == [status |-> "none", recs |-> <<>>]

\* ---------------------------------------------------------------- Student
\* Student.get_completed_courses / get_enrolled_courses
get_completed_courses(s) == s.completed_courses
get_enrolled_courses(s) == s.enrolled_courses

\* ----------------------------------------------- eligibility (the filter)
AllPrereqsCompleted(course, completed) ==
  \A i \in DOMAIN course.prerequisites : course.prerequisites[i] \in completed

\* mutant: the prerequisite check is missing
IsAvailableNoPrereqCheck(course, s) ==
  LET completed == Range(get_completed_courses(s))
      enrolled == Range(get_enrolled_courses(s))
  IN  ~(course.name \in completed \/ course.name \in enrolled)

\* body of the loop of _get_available_courses for one course
IsAvailable(course, s) ==
  LET completed == Range(get_completed_courses(s))
      enrolled == Range(get_enrolled_courses(s))
  IN  /\ ~(course.name \in completed \/ course.name \in enrolled)
      /\ AllPrereqsCompleted(course, completed)

\* RecommendationEngine._get_available_courses
get_available_courses(s) == SelectSeq(courses, LAMBDA c : IsAvailable(c, s))

\* ------------------------------------------------------------ embeddings
\* A text is [prefix, suffix]: prefix is text.strip()[:100], suffix the rest.
\* EmbeddingsManager._course_to_text: "Course: <name> | Description: ... |
\* Objectives: ... | Prerequisites: ..."; the name lies within the first 100
\* characters, the remainder of the rendering is the suffix.
course_to_text(course) == [prefix |-> course.name, suffix |-> course.category]

\* cache_key = text.strip()[:100]
cache_key(text) == text.prefix

\* the provider's vector for a text that ends as the course rendering does
PrefixEmbedding(text) ==
  CASE text.prefix = "Python Fundamentals" -> <<3, 4>>
    [] text.prefix = "Advanced Python" -> <<4, 3>>
    [] text.prefix = "Data Structures and Algorithms" -> <<5, 0>>
    [] text.prefix = "Machine Learning Fundamentals" -> <<0, 5>>
    [] text.prefix = "Deep Learning" -> <<-3, 4>>
    [] text.prefix = "Web Development with Flask" -> <<0, 0>>
    [] text.prefix = "Data Science with Python" -> <<3, 4>>
    [] text.prefix = "Math for Machine Learning" -> <<-4, -3>>
    [] OTHER -> <<0, 5>>

\* the external provider's answer (client.embeddings.create), a fixed vector per
\* text: the provider reads the whole text, so another tail gives another vector
ProviderEmbedding(text) ==
  IF text.suffix = "alt"
  THEN <<-PrefixEmbedding(text)[2], PrefixEmbedding(text)[1]>>
  ELSE PrefixEmbedding(text)

ISqrt(n) == CHOOSE r \in 0..n : r * r <= n /\ (r + 1) * (r + 1) > n

Dot(a, b) == SumSeq([i \in DOMAIN a |-> a[i] * b[i]])

\* np.linalg.norm
Norm(a) == ISqrt(Dot(a, a))

\* mutant: the result is not clamped
cosine_similarityNoClamp(embedding1, embedding2) ==
  LET dot_product == Dot(embedding1, embedding2)
      norm1 == Norm(embedding1)
      norm2 == Norm(embedding2)
  IN  IF norm1 = 0 \/ norm2 = 0 THEN 0
      ELSE (dot_product * SCALE) \div (norm1 * norm2)

\* EmbeddingsManager.cosine_similarity
cosine_similarity(embedding1, embedding2) ==
  LET dot_product == Dot(embedding1, embedding2)
      norm1 == Norm(embedding1)
      norm2 == Norm(embedding2)
  IN  IF norm1 = 0 \/ norm2 = 0 THEN 0
      ELSE Max(0, Min(SCALE, (dot_product * SCALE) \div (norm1 * norm2)))

\* The manager's state while a request runs:
\*   cache, file   embeddings_cache and the cache file
\*   calls         provider calls made so far
\*   failAt        which provider call of the request fails (0: none)
\*   ioFail        how writing the cache file fails during the request: "none",
\*                 "open" (mkdir or open raises) or "write" (json.dump raises)
\*   err           "none", or the exception that is propagating
MkEnv(cache, file, failAt, ioFail) ==
  [cache |-> cache, file |-> file, calls |-> <<>>, failAt |-> failAt,
   ioFail |-> ioFail, err |-> "none"]

\* mutant: only one member is written
json_dumpOneMember(cache) ==
  IF DOMAIN cache = {} THEN {}
  ELSE {<<k, cache[k]>> : k \in {CHOOSE k \in DOMAIN cache : TRUE}}

\* json.dump of the cache: the members of one JSON object
json_dump(cache) == {<<k, cache[k]>> : k \in DOMAIN cache}

\* json.load of a cache file: a dict from the members
json_load(data) ==
  IF data = {} THEN EmptyCache
  ELSE [k \in {m[1] : m \in data} |-> (CHOOSE m \in data : m[1] = k)[2]]

\* EmbeddingsManager._load_cache (an error while reading is printed and swallowed)
load_cache(file, readFail) ==
  IF file.exists
  THEN IF readFail \/ ~file.valid THEN EmptyCache ELSE json_load(file.data)
  ELSE EmptyCache

\* mutant: the file is read and merged with the cache before it is written
save_cacheMerging(env) ==
  [env EXCEPT !.file =
     [exists |-> TRUE, valid |-> TRUE,
      data |-> json_dump(env.cache)
                 \cup {m \in env.file.data : m[1] \notin DOMAIN env.cache}]]

\* mutant: the cache is never written to the file
save_cacheNoWrite(env) == env

\* mutant: an I/O error while saving propagates
save_cacheFatal(env) ==
  CASE env.ioFail = "open" -> [env EXCEPT !.err = "OSError"]
    [] env.ioFail = "write" ->
         [env EXCEPT !.file = [exists |-> TRUE, valid |-> FALSE, data |-> {}],
                     !.err = "OSError"]
    [] OTHER ->
         [env EXCEPT !.file = [exists |-> TRUE, valid |-> TRUE, data |-> json_dump(env.cache)]]

\* EmbeddingsManager._save_cache (an I/O error is printed and swallowed);
\* open(..., 'w') truncates the file before json.dump writes it
save_cache(env) ==
  CASE env.ioFail = "open" -> env
    [] env.ioFail = "write" ->
         [env EXCEPT !.file = [exists |-> TRUE, valid |-> FALSE, data |-> {}]]
    [] OTHER ->
         [env EXCEPT !.file = [exists |-> TRUE, valid |-> TRUE, data |-> json_dump(env.cache)]]

\* mutant: a failed provider call is made once more and then answers
ProviderCallRetry(env, texts) ==
  LET calls == Append(env.calls, texts)
  IN  IF Len(calls) = env.failAt
      THEN [env EXCEPT !.calls = Append(calls, texts)]
      ELSE [env EXCEPT !.calls = calls]

\* self.client.embeddings.create(model, input)
ProviderCall(env, texts) ==
  LET calls == Append(env.calls, texts)
  IN  [env EXCEPT !.calls = calls,
                  !.err = IF Len(calls) = env.failAt THEN "ProviderError" ELSE env.err]

\* mutant: a cached vector is only used for the text it was computed from
in_cacheSameTextOnly(cache, text) ==
  /\ cache_key(text) \in DOMAIN cache
  /\ cache[cache_key(text)] = ProviderEmbedding(text)

\* "use_cache and cache_key in self.embeddings_cache" (use_cache = True)
\* mutant: the cache is never hit
in_cacheNever(cache, text) == FALSE

in_cache(cache, text) == cache_key(text) \in DOMAIN cache

\* EmbeddingsManager.get_embedding (use_cache = True)
get_embedding(env, text) ==
  IF text.prefix = ""
  THEN [env |-> [env EXCEPT !.err = "ValueError"], value |-> <<>>]
  ELSE LET key == cache_key(text) IN
       IF in_cache(env.cache, text)
       THEN [env |-> env, value |-> env.cache[key]]
       ELSE LET e1 == ProviderCall(env, <<text>>) IN
            IF e1.err # "none"
            THEN [env |-> e1, value |-> <<>>]
            ELSE LET embedding == ProviderEmbedding(text)
                     e2 == [e1 EXCEPT !.cache = (key :> embedding) @@ e1.cache]
                 IN  [env |-> save_cache(e2), value |-> embedding]

\* mutant: the loop leaves only the last answer in the cache
FillCacheLastOnly(cache, texts) ==
  IF texts = <<>> THEN cache
  ELSE (cache_key(texts[Len(texts)]) :> ProviderEmbedding(texts[Len(texts)]))

\* the "fill in the embeddings" loop of get_embeddings_batch: the cache writes
RECURSIVE FillCache(_, _)
FillCache(cache, texts) ==
  IF texts = <<>> THEN cache
  ELSE FillCache((cache_key(Head(texts)) :> ProviderEmbedding(Head(texts))) @@ cache,
                 Tail(texts))

\* mutant: every text is taken for a miss
uncached_indicesAll(cache, texts) == [i \in DOMAIN texts |-> i]

\* uncached_indices after the "check cache first" loop
uncached_indices(cache, texts) ==
  SelectSeq([i \in DOMAIN texts |-> i], LAMBDA i : ~in_cache(cache, texts[i]))

\* response.data: one embedding per input, in input order
ProviderResponse(texts) == [j \in DOMAIN texts |-> ProviderEmbedding(texts[j])]

\* mutant: the provider's answers are appended after the cached vectors
fill_embeddingsAppended(cache, texts, response) ==
  LET cached == SelectSeq(texts, LAMBDA t : in_cache(cache, t))
  IN  [i \in DOMAIN cached |-> cache[cache_key(cached[i])]] \o response

\* the list "embeddings": the cached vectors, and embeddings[idx] = embedding
\* for idx = uncached_indices[i] of the i-th answer
fill_embeddings(cache, texts, response) ==
  LET idx == uncached_indices(cache, texts)
  IN  [i \in DOMAIN texts |->
         IF in_cache(cache, texts[i])
         THEN cache[cache_key(texts[i])]
         ELSE response[CHOOSE j \in DOMAIN idx : idx[j] = i]]

\* mutant: when the provider fails the cached vectors are returned
get_embeddings_batchPartial(env, texts) ==
  IF texts = <<>> THEN [env |-> env, value |-> <<>>]
  ELSE
    LET idx == uncached_indices(env.cache, texts)
        uncached_texts == [j \in DOMAIN idx |-> texts[idx[j]]]
    IN  IF uncached_texts = <<>>
        THEN [env |-> env, value |-> fill_embeddings(env.cache, texts, <<>>)]
        ELSE LET e1 == ProviderCall(env, uncached_texts) IN
             IF e1.err # "none"
             THEN [env |-> [e1 EXCEPT !.err = "none"],
                   value |-> [j \in DOMAIN SelectSeq(texts, LAMBDA t : in_cache(env.cache, t)) |->
                                env.cache[cache_key(SelectSeq(texts,
                                            LAMBDA t : in_cache(env.cache, t))[j])]]]
             ELSE LET e2 == [e1 EXCEPT !.cache = FillCache(e1.cache, uncached_texts)]
                  IN  [env |-> save_cache(e2),
                       value |-> fill_embeddings(env.cache, texts,
                                                 ProviderResponse(uncached_texts))]

\* EmbeddingsManager.get_embeddings_batch (use_cache = True)
get_embeddings_batch(env, texts) ==
  IF texts = <<>> THEN [env |-> env, value |-> <<>>]
  ELSE
    LET idx == uncached_indices(env.cache, texts)
        uncached_texts == [j \in DOMAIN idx |-> texts[idx[j]]]
    IN  IF uncached_texts = <<>>
        THEN [env |-> env, value |-> fill_embeddings(env.cache, texts, <<>>)]
        ELSE LET e1 == ProviderCall(env, uncached_texts) IN
             IF e1.err # "none"
             THEN [env |-> e1, value |-> <<>>]
             ELSE LET e2 == [e1 EXCEPT !.cache = FillCache(e1.cache, uncached_texts)]
                  IN  [env |-> save_cache(e2),
                       value |-> fill_embeddings(env.cache, texts,
                                                 ProviderResponse(uncached_texts))]

\* ------------------------------------------------------------ ranking
\* mutant: the insertion goes before equal scores (an unstable sort)
RECURSIVE InsertByScoreUnstable(_, _)
InsertByScoreUnstable(x, sorted) ==
  IF sorted = <<>> THEN <<x>>
  ELSE IF Head(sorted).score > x.score
       THEN <<Head(sorted)>> \o InsertByScoreUnstable(x, Tail(sorted))
       ELSE <<x>> \o sorted

\* list.sort(key=score, reverse=True): stable, equal scores keep their order
RECURSIVE InsertByScore(_, _)
InsertByScore(x, sorted) ==
  IF sorted = <<>> THEN <<x>>
  ELSE IF Head(sorted).score >= x.score
       THEN <<Head(sorted)>> \o InsertByScore(x, Tail(sorted))
       ELSE <<x>> \o sorted

\* mutant: the list is left unsorted
SortByScoreDescNoSort(s) == s

RECURSIVE SortByScoreDesc(_)
SortByScoreDesc(s) ==
  IF s = <<>> THEN <<>>
  ELSE InsertByScore(s[Len(s)], SortByScoreDesc(SubSeq(s, 1, Len(s) - 1)))

\* recommendations[:k] for k >= 0
Take(s, k) == SubSeq(s, 1, Min(k, Len(s)))

\* EmbeddingsManager.find_similar_courses
find_similar_courses(env, query_course, candidate_courses, top_k) ==
  Bind(get_embedding(env, course_to_text(query_course)), LAMBDA r1 :
    IF r1.env.err # "none" THEN [env |-> r1.env, value |-> <<>>]
    ELSE
      Bind(get_embeddings_batch(r1.env, [i \in DOMAIN candidate_courses |->
                                           course_to_text(candidate_courses[i])]),
           LAMBDA r2 :
        IF r2.env.err # "none" THEN [env |-> r2.env, value |-> <<>>]
        ELSE [env |-> r2.env,
              value |-> Take(SortByScoreDesc(
                               [i \in DOMAIN candidate_courses |->
                                  [name |-> candidate_courses[i].name,
                                   score |-> cosine_similarity(r1.value, r2.value[i])]]),
                             top_k)]))

\* ---------------------------------------------------- strategy 1: semantic
\* mutant: the beginner and intermediate scores are swapped
DifficultyScoreSwapped(course) ==
  CASE course.difficulty = "beginner" -> (7 * SCALE) \div 10
    [] course.difficulty = "intermediate" -> SCALE
    [] course.difficulty = "advanced" -> (4 * SCALE) \div 10
    [] OTHER -> (5 * SCALE) \div 10

\* {'beginner': 1.0, 'intermediate': 0.7, 'advanced': 0.4}.get(difficulty, 0.5)
DifficultyScore(course) ==
  CASE course.difficulty = "beginner" -> SCALE
    [] course.difficulty = "intermediate" -> (7 * SCALE) \div 10
    [] course.difficulty = "advanced" -> (4 * SCALE) \div 10
    [] OTHER -> (5 * SCALE) \div 10

\* next((c for c in self.courses if c['name'] == completed), None)
InCatalog(name) == name \in CourseNames
CatalogCourse(name) == courses[CatalogIndex(name)]

\* "accumulate scores": append each (course_name, similarity) to its list
AddSimilar(sims, similar) ==
  LET names == {similar[i].name : i \in DOMAIN similar}
      Old(n) == IF n \in DOMAIN sims THEN sims[n] ELSE <<>>
      New(n) == IF n \in names
                THEN <<similar[CHOOSE i \in DOMAIN similar : similar[i].name = n].score>>
                ELSE <<>>
  IN  [n \in (DOMAIN sims) \cup names |-> Old(n) \o New(n)]

\* the loop over completed_courses of _semantic_recommendations
RECURSIVE AccumulateSimilar(_, _, _, _)
AccumulateSimilar(env, completed, available_courses, sims) ==
  IF completed = <<>> THEN [env |-> env, value |-> sims]
  ELSE IF ~InCatalog(Head(completed))
       THEN AccumulateSimilar(env, Tail(completed), available_courses, sims)
       ELSE Bind(find_similar_courses(env, CatalogCourse(Head(completed)),
                                      available_courses, Len(available_courses)),
                 LAMBDA r :
                   IF r.env.err # "none" THEN [env |-> r.env, value |-> sims]
                   ELSE AccumulateSimilar(r.env, Tail(completed), available_courses,
                                          AddSimilar(sims, r.value)))

\* mutant: the best similarity instead of the mean
AvgScoreBest(similarity_scores, name) ==
  IF name \in DOMAIN similarity_scores
  THEN CHOOSE x \in Range(similarity_scores[name]) :
         \A y \in Range(similarity_scores[name]) : y <= x
  ELSE 0

\* "average the similarity scores": sum(scores) / len(scores), 0.0 without scores
AvgScore(similarity_scores, name) ==
  IF name \in DOMAIN similarity_scores
  THEN SumSeq(similarity_scores[name]) \div Len(similarity_scores[name])
  ELSE 0

\* RecommendationEngine._semantic_recommendations
semantic_recommendations(env, s, available_courses) ==
  IF get_completed_courses(s) = <<>>
  THEN [env |-> env,
        value |-> SortByScoreDesc(
          [i \in DOMAIN available_courses |->
             [course |-> available_courses[i],
              score |-> DifficultyScore(available_courses[i]),
              strategy |-> "semantic",
              details |-> [note |-> "Beginner-friendly course", value |-> 0]]])]
  ELSE Bind(AccumulateSimilar(env, get_completed_courses(s), available_courses, <<>>),
            LAMBDA acc :
              IF acc.env.err # "none" THEN [env |-> acc.env, value |-> <<>>]
              ELSE [env |-> acc.env,
                    value |-> SortByScoreDesc(
                      [i \in DOMAIN available_courses |->
                         [course |-> available_courses[i],
                          score |-> AvgScore(acc.value, available_courses[i].name),
                          strategy |-> "semantic",
                          details |->
                            [note |-> "Similar to completed courses",
                             value |-> Round2(AvgScore(acc.value,
                                                       available_courses[i].name))]]])])

\* -------------------------------------------------- strategy 2: predictive
RECURSIVE SumGrades(_, _)
SumGrades(g, dom) ==
  IF dom = {} THEN 0
  ELSE LET c == CHOOSE c \in dom : TRUE IN g[c] + SumGrades(g, dom \ {c})

\* sum(grades.values()) / len(grades), 0 without grades
AvgGrade(s) ==
  IF DOMAIN s.grades = {} THEN 0
  ELSE (SumGrades(s.grades, DOMAIN s.grades) * GRADE_SCALE) \div Cardinality(DOMAIN s.grades)

\* "Advanced" in str(course) or "II" in str(course)
NameHasAdvancedOrII(name) == name \in {"Advanced Python", "Database Systems II"}
\* "Intro" in str(course) or "Fundamentals" in str(course)
NameHasIntroOrFundamentals(name) ==
  name \in {"Python Fundamentals", "Machine Learning Fundamentals"}

difficulty_adjustment(course) ==
  IF NameHasAdvancedOrII(course) THEN -5 * GRADE_SCALE
  ELSE IF NameHasIntroOrFundamentals(course) THEN 5 * GRADE_SCALE
  ELSE 0

\* MLPredictor.predict_performance for a Student object. outcome says how the
\* call runs: "ok" the try block completes, "fallback" the try block raises and
\* the except block answers, "raise" the except block raises as well.
predict_performance(s, course, outcome) ==
  LET avg_grade == AvgGrade(s)
      base_prediction == IF avg_grade > 0 THEN avg_grade ELSE 75 * GRADE_SCALE
  IN  CASE outcome = "ok" ->
             [raised |-> FALSE,
              predicted_grade |->
                Max(0, Min(100 * GRADE_SCALE, base_prediction + difficulty_adjustment(course)))]
        [] outcome = "fallback" ->
             [raised |-> FALSE, predicted_grade |-> base_prediction]
        [] OTHER -> [raised |-> TRUE, predicted_grade |-> 0]

\* mutant: a failed prediction scores 0.0 instead of the neutral 0.5
MLRecordZeroOnFailure(s, course, outcome) ==
  LET prediction == predict_performance(s, course.name, outcome) IN
  IF prediction.raised
  THEN [course |-> course, score |-> 0, strategy |-> "ml_prediction",
        details |-> [note |-> "Prediction unavailable", value |-> 0]]
  ELSE [course |-> course,
        score |-> (prediction.predicted_grade * SCALE) \div (100 * GRADE_SCALE),
        strategy |-> "ml_prediction",
        details |-> [note |-> "Predicted grade", value |-> prediction.predicted_grade]]

\* body of the loop of _ml_recommendations for one course
MLRecord(s, course, outcome) ==
  LET prediction == predict_performance(s, course.name, outcome) IN
  IF prediction.raised
  THEN [course |-> course, score |-> (5 * SCALE) \div 10, strategy |-> "ml_prediction",
        details |-> [note |-> "Prediction unavailable", value |-> 0]]
  ELSE [course |-> course,
        score |-> (prediction.predicted_grade * SCALE) \div (100 * GRADE_SCALE),
        strategy |-> "ml_prediction",
        details |-> [note |-> "Predicted grade", value |-> prediction.predicted_grade]]

\* RecommendationEngine._ml_recommendations
ml_recommendations(s, available_courses, pred) ==
  SortByScoreDesc([i \in DOMAIN available_courses |->
                     MLRecord(s, available_courses[i], pred[available_courses[i].name])])

\* ------------------------------------------------ strategy 3: collaborative
\* mutant: the peer finder finds one peer
find_similar_studentsOnePeer(s) ==
  << [completed_courses |-> <<"Advanced Python">>, enrolled_courses |-> <<>>,
      grades |-> <<>>] >>

\* RecommendationEngine._find_similar_students: "return []"
find_similar_students(s) == <<>>

\* course_popularity[name] over the similar students' completed courses
Popularity(name, similar_students) ==
  SumSeq([k \in DOMAIN similar_students |->
            Cardinality({i \in DOMAIN get_completed_courses(similar_students[k]) :
                           get_completed_courses(similar_students[k])[i] = name})])

\* RecommendationEngine._collaborative_recommendations
collaborative_recommendations(s, available_courses) ==
  LET similar_students == find_similar_students(s) IN
  IF similar_students = <<>>
  THEN [i \in DOMAIN available_courses |->
          [course |-> available_courses[i], score |-> (5 * SCALE) \div 10,
           strategy |-> "collaborative",
           details |-> [note |-> "No similar students found", value |-> 0]]]
  ELSE LET taken == UNION {Range(get_completed_courses(similar_students[k])) :
                             k \in DOMAIN similar_students}
           max_popularity ==
             IF taken = {} THEN 1
             ELSE CHOOSE m \in {Popularity(n, similar_students) : n \in taken} :
                    \A n \in taken : Popularity(n, similar_students) <= m
           Score(name) == IF max_popularity > 0
                          THEN (Popularity(name, similar_students) * SCALE) \div max_popularity
                          ELSE 0
       IN  SortByScoreDesc(
             [i \in DOMAIN available_courses |->
                [course |-> available_courses[i],
                 score |-> Score(available_courses[i].name),
                 strategy |-> "collaborative",
                 details |-> [note |-> "similar students took this",
                              value |-> Popularity(available_courses[i].name,
                                                   similar_students)]]])

\* ------------------------------------------------------------- the blender
\* {rec['course']['name']: rec['score'] for rec in recs}.get(course_name, 0.0)
ScoreOf(recs, name) ==
  IF \E i \in DOMAIN recs : recs[i].course.name = name
  THEN recs[CHOOSE i \in DOMAIN recs : recs[i].course.name = name].score
  ELSE 0

\* mutant: the three scores are averaged instead of weighted
CombinedScoreAveraged(sem, ml, col) == (sem + ml + col) \div 3

\* the weighted combination of _hybrid_recommendations
CombinedScore(sem, ml, col) ==
  (weights.semantic * sem + weights.ml_prediction * ml + weights.collaborative * col) \div 100

\* one element of the "combine scores" loop of _hybrid_recommendations
HybridRecord(course, sc, ml, co) ==
  [course |-> course,
   score |-> CombinedScore(sc, ml, co),
   strategy |-> "hybrid",
   details |-> [semantic |-> sc, ml_prediction |-> ml, collaborative |-> co,
                combined |-> CombinedScore(sc, ml, co)]]

\* RecommendationEngine._hybrid_recommendations
hybrid_recommendations(env, s, available_courses, pred) ==
  Bind(semantic_recommendations(env, s, available_courses), LAMBDA sem :
    IF sem.env.err # "none" THEN [env |-> sem.env, value |-> <<>>]
    ELSE
      Bind(ml_recommendations(s, available_courses, pred), LAMBDA ml_recs :
        Bind(collaborative_recommendations(s, available_courses),
             LAMBDA collaborative_recs :
          [env |-> sem.env,
           value |-> SortByScoreDesc(
             [i \in DOMAIN available_courses |->
                HybridRecord(available_courses[i],
                             ScoreOf(sem.value, available_courses[i].name),
                             ScoreOf(ml_recs, available_courses[i].name),
                             ScoreOf(collaborative_recs, available_courses[i].name))])])))

\* ------------------------------------------------ confidence and reasoning
Reason(text) == [text |-> text, args |-> <<>>]

\* mutant: the thresholds of the hybrid rules are inclusive
strategy_reasonsInclusive(rec) ==
  CASE rec.strategy = "hybrid" ->
         (IF rec.details.semantic >= (7 * SCALE) \div 10
          THEN <<Reason("similar to courses you've completed")>> ELSE <<>>)
         \o (IF rec.details.ml_prediction >= (75 * SCALE) \div 100
             THEN <<Reason("you're predicted to perform well")>> ELSE <<>>)
         \o (IF rec.details.collaborative >= (5 * SCALE) \div 10
             THEN <<Reason("popular among similar students")>> ELSE <<>>)
    [] rec.strategy = "semantic" -> <<Reason("matches your learning path")>>
    [] rec.strategy = "ml_prediction" -> <<Reason("good fit based on your performance")>>
    [] rec.strategy = "collaborative" -> <<Reason("taken by similar students")>>
    [] OTHER -> <<>>

\* "Based on strategy" of _generate_reasoning (lines 391-404)
strategy_reasons(rec) ==
  CASE rec.strategy = "hybrid" ->
         (IF rec.details.semantic > (7 * SCALE) \div 10
          THEN <<Reason("similar to courses you've completed")>> ELSE <<>>)
         \o (IF rec.details.ml_prediction > (75 * SCALE) \div 100
             THEN <<Reason("you're predicted to perform well")>> ELSE <<>>)
         \o (IF rec.details.collaborative > (5 * SCALE) \div 10
             THEN <<Reason("popular among similar students")>> ELSE <<>>)
    [] rec.strategy = "semantic" -> <<Reason("matches your learning path")>>
    [] rec.strategy = "ml_prediction" -> <<Reason("good fit based on your performance")>>
    [] rec.strategy = "collaborative" -> <<Reason("taken by similar students")>>
    [] OTHER -> <<>>

\* mutant: the generic sentence is given whenever no strategy reason was found
join_reasonsStrategyOnly(reasons, strategy) ==
  IF \E k \in DOMAIN reasons :
       reasons[k].text \notin {"builds on", "beginner-friendly", "advanced challenge"}
  THEN [template |-> "Recommended because it's", reasons |-> reasons,
        strategy |-> strategy]
  ELSE [template |-> "Recommended based on analysis", reasons |-> <<>>,
        strategy |-> strategy]

\* "Combine reasons" of _generate_reasoning (lines 419-423)
join_reasons(reasons, strategy) ==
  IF reasons # <<>>
  THEN [template |-> "Recommended because it's", reasons |-> reasons,
        strategy |-> strategy]
  ELSE [template |-> "Recommended based on analysis", reasons |-> <<>>,
        strategy |-> strategy]

\* RecommendationEngine._generate_reasoning. The sentence is returned as its
\* template and the list of reasons that ' and '.join(reasons) renders.
generate_reasoning(rec, s) ==
  LET course == rec.course
      prereqs == course.prerequisites
      by_prereqs == IF prereqs # <<>>
                    THEN <<[text |-> "builds on", args |-> Take(prereqs, 2)]>>
                    ELSE <<>>
      by_difficulty ==
        CASE course.difficulty = "beginner" -> <<Reason("beginner-friendly")>>
          [] course.difficulty = "advanced" -> <<Reason("advanced challenge")>>
          [] OTHER -> <<>>
  IN  join_reasons(strategy_reasons(rec) \o by_prereqs \o by_difficulty, rec.strategy)

\* mutant: the 0.95 cap is missing
calculate_confidenceNoCap(rec) ==
  Round2(Max((1 * SCALE) \div 10, (rec.score * 12) \div 10))

\* mutant: the confidence is not rounded
calculate_confidenceNoRound(rec) ==
  Max((1 * SCALE) \div 10, Min((95 * SCALE) \div 100, (rec.score * 12) \div 10))

\* RecommendationEngine._calculate_confidence
calculate_confidence(rec) ==
  LET score == rec.score
      capped == Min((95 * SCALE) \div 100, (score * 12) \div 10)
      confidence == Max((1 * SCALE) \div 10, capped)
  IN  Round2(confidence)

\* "Add reasoning and metadata"
Annotate(rec, s) ==
  [course |-> rec.course, score |-> rec.score, strategy |-> rec.strategy,
   details |-> rec.details,
   reasoning |-> generate_reasoning(rec, s),
   confidence |-> calculate_confidence(rec)]

\* ------------------------------------------------------------ orchestrator
\* mutant: mode "ml" is answered by the blender
score_by_strategyMlBlended(env, s, available_courses, strategy, pred) ==
  CASE strategy = "semantic" ->
         semantic_recommendations(env, s, available_courses)
    [] strategy = "collaborative" ->
         [env |-> env, value |-> collaborative_recommendations(s, available_courses)]
    [] OTHER -> hybrid_recommendations(env, s, available_courses, pred)

\* lines 136-143 of recommend: dispatch on the strategy
score_by_strategy(env, s, available_courses, strategy, pred) ==
  CASE strategy = "semantic" ->
         semantic_recommendations(env, s, available_courses)
    [] strategy = "ml" ->
         [env |-> env, value |-> ml_recommendations(s, available_courses, pred)]
    [] strategy = "collaborative" ->
         [env |-> env, value |-> collaborative_recommendations(s, available_courses)]
    [] OTHER -> hybrid_recommendations(env, s, available_courses, pred)

\* lines 135-148 of recommend: score, then "Add reasoning and metadata". Yields
\* the manager state after the call, "list" with the annotated ranking or
\* "error", and the predictor calls made.
score_and_annotate(env, s, available_courses, strategy, pred) ==
  Bind(score_by_strategy(env, s, available_courses, strategy, pred), LAMBDA scored :
    IF scored.env.err # "none"
    THEN [env |-> scored.env, status |-> "error", recs |-> <<>>,
          predictor_calls |-> <<>>]
    ELSE [env |-> scored.env, status |-> "list",
          recs |-> [i \in DOMAIN scored.value |-> Annotate(scored.value[i], s)],
          predictor_calls |->
            IF strategy \in {"semantic", "collaborative"} THEN <<>>
            ELSE [i \in DOMAIN available_courses |-> available_courses[i].name]])

\* mutant: the "if not available_courses: return []" guard is missing
recommend_rankedNoEmptyCheck(env, s, strategy, pred) ==
  score_and_annotate(env, s, get_available_courses(s), strategy, pred)

\* RecommendationEngine.recommend up to the annotated list (lines 129-148)
recommend_ranked(env, s, strategy, pred) ==
  LET available_courses == get_available_courses(s)
  IN  IF available_courses = <<>>
      THEN [env |-> env, status |-> "list", recs |-> <<>>, predictor_calls |-> <<>>]
      ELSE score_and_annotate(env, s, available_courses, strategy, pred)

\* "Return top N": recommendations[:num_recommendations]
TopN(full, num_recommendations) ==
  [full EXCEPT !.recs = Take(@, num_recommendations)]

\* RecommendationEngine.recommend
recommend(env, s, num_recommendations, strategy, pred) ==
  TopN(recommend_ranked(env, s, strategy, pred), num_recommendations)

\* ----------------------------------------------------------------- actions
\* how the predictor behaves for each candidate of a request
PredChoices(names) ==
  {f \in [names -> PredictorOutcomes] :
     Cardinality({c \in names : f[c] # "ok"}) <= MaxPredFaults}

AllOk(names) == [c \in names |-> "ok"]

AvailableNames(s) ==
  {get_available_courses(s)[i].name : i \in DOMAIN get_available_courses(s)}

Idle == result.status = "none"

\* Student.complete_course(course_name, grade)
CompleteCourse(c, hasGrade, g) ==
  /\ Idle
  /\ InList(c, student.completed_courses) \/ Len(student.completed_courses) < MaxCompleted
  /\ student' =
       [student EXCEPT
          !.completed_courses = IF InList(c, @) THEN @ ELSE Append(@, c),
          !.grades = IF hasGrade THEN (c :> g) @@ @ ELSE @]
  /\ UNCHANGED <<embeddings_cache, cache_file, request, ranked, result,
                 provider_calls, predictor_calls, call, writers>>

\* enroll_student route: append the course unless already enrolled
EnrollCourse(c) ==
  /\ Idle
  /\ ~InList(c, student.enrolled_courses)
  /\ Len(student.enrolled_courses) < MaxEnrolled
  /\ student' = [student EXCEPT !.enrolled_courses = Append(@, c)]
  /\ UNCHANGED <<embeddings_cache, cache_file, request, ranked, result,
                 provider_calls, predictor_calls, call, writers>>

\* mutant: the call enrolls the student in the first course it recommends
RecommendEnrolling(strategy, pred, failAt, ioFail) ==
  /\ Idle
  /\ \E full \in {recommend_ranked(MkEnv(embeddings_cache, cache_file, failAt, ioFail),
                                      student, strategy, pred)} :
       \E n \in 0 .. MaxN :
           LET r == TopN(full, n)
           IN  /\ embeddings_cache' = r.env.cache
               /\ cache_file' = r.env.file
               /\ provider_calls' = r.env.calls
               /\ predictor_calls' = r.predictor_calls
               /\ ranked' = full.recs
               /\ result' = [status |-> r.status, recs |-> r.recs]
               /\ request' = [strategy |-> strategy, n |-> n, pred |-> pred,
                              failAt |-> failAt, ioFail |-> ioFail]
               /\ call' = [op |-> "recommend"]
               /\ student' =
                    IF r.recs # <<>>
                    THEN [student EXCEPT
                            !.enrolled_courses = Append(@, r.recs[1].course.name)]
                    ELSE student
  /\ UNCHANGED writers

\* engine.recommend(student, num_recommendations, strategy) as one request,
\* for every num_recommendations in 0 .. MaxN
Recommend(strategy, pred, failAt, ioFail) ==
  /\ Idle
  /\ \E full \in {recommend_ranked(MkEnv(embeddings_cache, cache_file, failAt, ioFail),
                                      student, strategy, pred)} :
       \E n \in 0 .. MaxN :
           LET r == TopN(full, n)
           IN  /\ embeddings_cache' = r.env.cache
               /\ cache_file' = r.env.file
               /\ provider_calls' = r.env.calls
               /\ predictor_calls' = r.predictor_calls
               /\ ranked' = full.recs
               /\ result' = [status |-> r.status, recs |-> r.recs]
               /\ request' = [strategy |-> strategy, n |-> n, pred |-> pred,
                              failAt |-> failAt, ioFail |-> ioFail]
               /\ call' = [op |-> "recommend"]
  /\ UNCHANGED <<student, writers>>

\* the request ends: the route hands the list (or the error) to the caller
Respond ==
  /\ ~Idle
  /\ request' = NoRequest
  /\ ranked' = <<>>
  /\ result' = NoResult
  /\ provider_calls' = <<>>
  /\ predictor_calls' = <<>>
  /\ UNCHANGED <<student, embeddings_cache, cache_file, call, writers>>

Init ==
  /\ student = [completed_courses |-> <<>>, enrolled_courses |-> <<>>, grades |-> <<>>]
  /\ embeddings_cache = EmptyCache
  /\ cache_file = NoFile
  /\ request = NoRequest
  /\ ranked = <<>>
  /\ result = NoResult
  /\ provider_calls = <<>>
  /\ predictor_calls = <<>>
  /\ writers = NoWriters
  /\ call = NoCall

\* the provider calls a request can make: two per completed course
FailPoints == 0 .. (2 * MaxCompleted)

\* In Spec every write of the cache file succeeds.
RecommendSemantic ==
  \E failAt \in FailPoints :
    Recommend("semantic", AllOk(AvailableNames(student)), failAt, "none")

RecommendML ==
  \E pred \in PredChoices(AvailableNames(student)) : Recommend("ml", pred, 0, "none")

RecommendCollaborative ==
  Recommend("collaborative", AllOk(AvailableNames(student)), 0, "none")

\* a predictor fault is only met when no provider call fails
RecommendHybrid ==
  \/ \E pred \in PredChoices(AvailableNames(student)) : Recommend("hybrid", pred, 0, "none")
  \/ \E failAt \in FailPoints \ {0} :
       Recommend("hybrid", AllOk(AvailableNames(student)), failAt, "none")

Next ==
  \/ \E c \in StudentCourses, hasGrade \in BOOLEAN, g \in GradeValues :
       CompleteCourse(c, hasGrade, g)
  \/ \E c \in StudentCourses : EnrollCourse(c)
  \/ RecommendSemantic
  \/ RecommendML
  \/ RecommendCollaborative
  \/ RecommendHybrid
  \/ Respond

Spec == Init /\ [][Next]_vars

\* ------------------------------------------- the embeddings manager alone
\* texts handed to the manager: a course rendering, a text with the same
\* first 100 characters and another tail, and another course rendering
Texts ==
  {course_to_text(CatalogCourse("Python Fundamentals")),
   [prefix |-> "Python Fundamentals", suffix |-> "alt"],
   course_to_text(CatalogCourse("Advanced Python"))}

TextLists == UNION {[1 .. n -> Texts] : n \in 0 .. MaxBatch}

IOFaults == {"none", "open", "write"}

\* which provider call fails (0: none) and how the save fails; a call whose
\* provider call fails never reaches the save
ManagerFaults == {<<0, io>> : io \in IOFaults} \cup {<<1, "none">>}

\* manager.get_embedding(text)
GetEmbedding(text, failAt, ioFail) ==
  /\ Idle
  /\ \E r \in {get_embedding(MkEnv(embeddings_cache, cache_file, failAt, ioFail), text)} :
       /\ embeddings_cache' = r.env.cache
       /\ cache_file' = r.env.file
       /\ provider_calls' = r.env.calls
       /\ call' = [op |-> "get_embedding", texts |-> <<text>>, failAt |-> failAt,
                   ioFail |-> ioFail, err |-> r.env.err,
                   vectors |-> IF r.env.err = "none" THEN <<r.value>> ELSE <<>>,
                   stored |-> r.env.err = "none" /\ r.env.calls # <<>>,
                   cache_before |-> embeddings_cache, file_before |-> cache_file]
  /\ UNCHANGED <<student, request, ranked, result, predictor_calls, writers>>

\* manager.get_embeddings_batch(texts)
GetEmbeddingsBatch(texts, failAt, ioFail) ==
  /\ Idle
  /\ \E r \in {get_embeddings_batch(MkEnv(embeddings_cache, cache_file, failAt, ioFail),
                                     texts)} :
       /\ embeddings_cache' = r.env.cache
       /\ cache_file' = r.env.file
       /\ provider_calls' = r.env.calls
       /\ call' = [op |-> "get_embeddings_batch", texts |-> texts, failAt |-> failAt,
                   ioFail |-> ioFail, err |-> r.env.err,
                   vectors |-> r.value,
                   stored |-> r.env.err = "none" /\ r.env.calls # <<>>,
                   cache_before |-> embeddings_cache, file_before |-> cache_file]
  /\ UNCHANGED <<student, request, ranked, result, predictor_calls, writers>>

\* what the call before a restart stored and wrote to the file
PersistedBy(c) ==
  IF c.op = "get_embedding" /\ c.stored /\ c.ioFail = "none"
  THEN {<<cache_key(c.texts[1]), c.vectors[1]>>}
  ELSE {}

\* the process ends and a new EmbeddingsManager is constructed (__init__)
Restart(readFail) ==
  /\ Idle
  /\ embeddings_cache' = load_cache(cache_file, readFail)
  /\ provider_calls' = <<>>
  /\ call' = [op |-> "restart", readFail |-> readFail, put |-> PersistedBy(call)]
  /\ UNCHANGED <<student, cache_file, request, ranked, result, predictor_calls, writers>>

\* manager.clear_cache()
ClearCache ==
  /\ Idle
  /\ embeddings_cache' = EmptyCache
  /\ cache_file' = NoFile
  /\ provider_calls' = <<>>
  /\ call' = [op |-> "clear_cache", cache_before |-> embeddings_cache,
              file_before |-> cache_file]
  /\ UNCHANGED <<student, request, ranked, result, predictor_calls, writers>>

\* a semantic request while writing the cache file may fail
RecommendWithIOFault ==
  \E ioFail \in IOFaults :
    Recommend("semantic", AllOk(AvailableNames(student)), 0, ioFail)

CacheInit ==
  /\ student = [completed_courses |-> <<"Python Fundamentals">>, enrolled_courses |-> <<>>,
                grades |-> <<>>]
  /\ embeddings_cache = EmptyCache
  /\ cache_file = NoFile
  /\ request = NoRequest
  /\ ranked = <<>>
  /\ result = NoResult
  /\ provider_calls = <<>>
  /\ predictor_calls = <<>>
  /\ writers = NoWriters
  /\ call = NoCall

CacheNext ==
  \/ \E text \in Texts, f \in ManagerFaults : GetEmbedding(text, f[1], f[2])
  \/ \E texts \in TextLists, f \in ManagerFaults : GetEmbeddingsBatch(texts, f[1], f[2])
  \/ \E readFail \in BOOLEAN : Restart(readFail)
  \/ ClearCache
  \/ RecommendWithIOFault
  \/ Respond

CacheSpec == CacheInit /\ [][CacheNext]_vars

\* --------------------------------------------------------------- the route
\* CourseRecommendation: score and confidence are Field(..., ge=0.0, le=1.0)
ValidCourseRecommendation(rec) ==
  /\ rec.score >= 0 /\ rec.score <= SCALE
  /\ rec.confidence >= 0 /\ rec.confidence <= SCALE

\* the route get_recommendations, from the outcome of engine.recommend on and
\* without filters: every exception becomes HTTP 500 RECOMMENDATION_ERROR
get_recommendations(outcome) ==
  IF \/ outcome.status = "error"
     \/ \E i \in DOMAIN outcome.recs : ~ValidCourseRecommendation(outcome.recs[i])
  THEN [status_code |-> 500, code |-> "RECOMMENDATION_ERROR", recommendations |-> <<>>]
  ELSE [status_code |-> 200, code |-> "",
        recommendations |->
          [i \in DOMAIN outcome.recs |->
             [course_name |-> outcome.recs[i].course.name,
              score |-> outcome.recs[i].score,
              confidence |-> outcome.recs[i].confidence]]]

\* ------------------------------------------------ cosine_similarity alone
Vectors(n) == [1 .. n -> {10 * k : k \in -MaxComponent .. MaxComponent}]

CosineInit ==
  /\ student = [completed_courses |-> <<>>, enrolled_courses |-> <<>>, grades |-> <<>>]
  /\ embeddings_cache = EmptyCache
  /\ cache_file = NoFile
  /\ request = NoRequest
  /\ ranked = <<>>
  /\ result = NoResult
  /\ provider_calls = <<>>
  /\ predictor_calls = <<>>
  /\ writers = NoWriters
  /\ \E n \in 0 .. MaxDim :
       \E a \in Vectors(n), b \in Vectors(n) :
         call = [op |-> "cosine_args", embedding1 |-> a, embedding2 |-> b]

\* manager.cosine_similarity(embedding1, embedding2), and with the arguments swapped
CosineSimilarity ==
  /\ call.op = "cosine_args"
  /\ call' = [op |-> "cosine_similarity",
              embedding1 |-> call.embedding1, embedding2 |-> call.embedding2,
              value |-> cosine_similarity(call.embedding1, call.embedding2),
              swapped |-> cosine_similarity(call.embedding2, call.embedding1)]
  /\ UNCHANGED <<student, embeddings_cache, cache_file, request, ranked, result,
                 provider_calls, predictor_calls, writers>>

CosineNext == CosineSimilarity

CosineSpec == CosineInit /\ [][CosineNext]_vars

\* -------------------------------------------------- calculate_status alone
\* ai/student_audit.py: the centralized risk thresholds
THRESHOLDS ==
  [AT_RISK_ATTENDANCE |-> 85, CRITICAL_ATTENDANCE |-> 70,
   AT_RISK_AVG_GRADE |-> 75, CRITICAL_AVG_GRADE |-> 60]

\* mutant: the critical thresholds are inclusive
calculate_statusInclusive(avg_grade, attendance_pct) ==
  [status |->
     IF \/ avg_grade <= THRESHOLDS.CRITICAL_AVG_GRADE
        \/ attendance_pct <= THRESHOLDS.CRITICAL_ATTENDANCE
     THEN "Critical Risk"
     ELSE IF \/ avg_grade < THRESHOLDS.AT_RISK_AVG_GRADE
             \/ attendance_pct < THRESHOLDS.AT_RISK_ATTENDANCE
          THEN "At Risk"
          ELSE "Good Standing",
   reasons |->
     (IF avg_grade < THRESHOLDS.AT_RISK_AVG_GRADE THEN <<"Academic Struggle">> ELSE <<>>)
     \o (IF attendance_pct < THRESHOLDS.AT_RISK_ATTENDANCE
         THEN <<"Attendance Warning">> ELSE <<>>)]

\* student_audit.calculate_status: (status, reasons)
calculate_status(avg_grade, attendance_pct) ==
  LET is_critical_grade == avg_grade < THRESHOLDS.CRITICAL_AVG_GRADE
      is_critical_attendance == attendance_pct < THRESHOLDS.CRITICAL_ATTENDANCE
      is_risk_grade == avg_grade < THRESHOLDS.AT_RISK_AVG_GRADE
      is_risk_attendance == attendance_pct < THRESHOLDS.AT_RISK_ATTENDANCE
  IN  [status |->
         IF is_critical_grade \/ is_critical_attendance THEN "Critical Risk"
         ELSE IF is_risk_grade \/ is_risk_attendance THEN "At Risk"
              ELSE "Good Standing",
       reasons |->
         (IF avg_grade < THRESHOLDS.AT_RISK_AVG_GRADE
          THEN <<"Academic Struggle">> ELSE <<>>)
         \o (IF attendance_pct < THRESHOLDS.AT_RISK_ATTENDANCE
             THEN <<"Attendance Warning">> ELSE <<>>)]

AuditInit ==
  /\ student = [completed_courses |-> <<>>, enrolled_courses |-> <<>>, grades |-> <<>>]
  /\ embeddings_cache = EmptyCache
  /\ cache_file = NoFile
  /\ request = NoRequest
  /\ ranked = <<>>
  /\ result = NoResult
  /\ provider_calls = <<>>
  /\ predictor_calls = <<>>
  /\ writers = NoWriters
  /\ \E g \in 0 .. MaxPercent, a \in 0 .. MaxPercent :
       call = [op |-> "audit_args", avg_grade |-> g, attendance_pct |-> a]

\* calculate_status(avg_grade, attendance_pct)
CalculateStatus ==
  /\ call.op = "audit_args"
  /\ \E r \in {calculate_status(call.avg_grade, call.attendance_pct)} :
       call' = [op |-> "calculate_status", avg_grade |-> call.avg_grade,
                attendance_pct |-> call.attendance_pct,
                status |-> r.status, reasons |-> r.reasons]
  /\ UNCHANGED <<student, embeddings_cache, cache_file, request, ranked, result,
                 provider_calls, predictor_calls, writers>>

AuditNext == CalculateStatus

AuditSpec == AuditInit /\ [][AuditNext]_vars

\* ----------------------------------- the manager's calls, line by line
\* An embedding call of a manager as the steps of its code: the provider
\* answers for the misses, each answer is put into the in-memory cache, then
\* _save_cache rewrites the file. No write of the file fails here.
UnbuiltWriter == [pc |-> "unbuilt", cache |-> EmptyCache, op |-> "none",
                  pending |-> <<>>, inserted |-> 0]

\* EmbeddingsManager.__init__: self.embeddings_cache = self._load_cache()
Construct(w) ==
  /\ writers[w].pc = "unbuilt"
  /\ writers' = [writers EXCEPT ![w].pc = "idle",
                                ![w].cache = load_cache(cache_file, FALSE)]
  /\ call' = [op |-> "construct", writer |-> w, file_before |-> cache_file]
  /\ UNCHANGED <<student, embeddings_cache, cache_file, request, ranked, result,
                 provider_calls, predictor_calls>>

\* get_embedding (op "get_embedding", one text) or get_embeddings_batch up to
\* the provider's answer for the texts that missed the cache
BeginCall(w, op, texts) ==
  /\ writers[w].pc = "idle"
  /\ \E idx \in {uncached_indices(writers[w].cache, texts)} :
       /\ idx # <<>>
       /\ writers' =
            [writers EXCEPT
               ![w].pc = "insert",
               ![w].op = op,
               ![w].inserted = 0,
               ![w].pending =
                 [j \in DOMAIN idx |->
                    [key |-> cache_key(texts[idx[j]]),
                     embedding |-> ProviderResponse([i \in DOMAIN idx |-> texts[idx[i]]])[j]]]]
  /\ call' = [op |-> op, writer |-> w, file_before |-> cache_file]
  /\ UNCHANGED <<student, embeddings_cache, cache_file, request, ranked, result,
                 provider_calls, predictor_calls>>

\* self.embeddings_cache[cache_key] = embedding (line 86, and line 139 in the loop)
InsertEntry(w) ==
  /\ writers[w].pc = "insert"
  /\ writers' =
       [writers EXCEPT
          ![w].cache = (Head(writers[w].pending).key :> Head(writers[w].pending).embedding)
                         @@ writers[w].cache,
          ![w].pending = Tail(writers[w].pending),
          ![w].inserted = writers[w].inserted + 1,
          ![w].pc = IF Tail(writers[w].pending) = <<>> THEN "save" ELSE "insert"]
  /\ call' = [op |-> "insert", writer |-> w, file_before |-> cache_file]
  /\ UNCHANGED <<student, embeddings_cache, cache_file, request, ranked, result,
                 provider_calls, predictor_calls>>

\* self._save_cache() (line 87, and line 141 after the loop), then the return
SaveCache(w) ==
  /\ writers[w].pc = "save"
  /\ cache_file' = save_cache(MkEnv(writers[w].cache, cache_file, 0, "none")).file
  /\ writers' = [writers EXCEPT ![w].pc = "idle", ![w].op = "none", ![w].inserted = 0]
  /\ call' = [op |-> "save_cache", writer |-> w, file_before |-> cache_file]
  /\ UNCHANGED <<student, embeddings_cache, request, ranked, result,
                 provider_calls, predictor_calls>>

WriterInit(ids) ==
  /\ student = [completed_courses |-> <<>>, enrolled_courses |-> <<>>, grades |-> <<>>]
  /\ embeddings_cache = EmptyCache
  /\ cache_file = NoFile
  /\ request = NoRequest
  /\ ranked = <<>>
  /\ result = NoResult
  /\ provider_calls = <<>>
  /\ predictor_calls = <<>>
  /\ call = NoCall
  /\ writers = [w \in ids |-> UnbuiltWriter]

WriterNext(ids, inputs) ==
  \/ \E w \in ids : Construct(w)
  \/ \E w \in ids, text \in inputs : BeginCall(w, "get_embedding", <<text>>)
  \/ \E w \in ids, texts \in UNION {[1 .. n -> inputs] : n \in 0 .. MaxBatch} :
       BeginCall(w, "get_embeddings_batch", texts)
  \/ \E w \in ids : InsertEntry(w)
  \/ \E w \in ids : SaveCache(w)

\* one manager, asked for the texts above and for one more course rendering
OneWriter == {"engine"}
MoreTexts == Texts \cup {course_to_text(CatalogCourse("Data Structures and Algorithms"))}
WriteThroughInit == WriterInit(OneWriter)
WriteThroughNext == WriterNext(OneWriter, MoreTexts)
WriteThroughSpec == WriteThroughInit /\ [][WriteThroughNext]_vars

\* the managers built by get_engine and by get_recommender, in one process
TwoWriters == {"engine", "recommender"}
SharedFileInit == WriterInit(TwoWriters)
SharedFileNext == WriterNext(TwoWriters, Texts)
SharedFileSpec == SharedFileInit /\ [][SharedFileNext]_vars

\* ================================================================= claims
Returned == result.status = "list"
RecNames == {result.recs[i].course.name : i \in DOMAIN result.recs}
Completed == Range(student.completed_courses)
Enrolled == Range(student.enrolled_courses)

\* C1: no returned item is among the student's completed or enrolled courses,
\* and every prerequisite of every returned item is a completed course, in
\* every strategy mode and for every N.
C1_Eligibility ==
  Returned =>
    \A i \in DOMAIN result.recs :
      LET course == result.recs[i].course IN
        /\ course.name \notin Completed
        /\ course.name \notin Enrolled
        /\ \A k \in DOMAIN course.prerequisites : course.prerequisites[k] \in Completed

\* a returned item with prerequisites, for a student who is also enrolled somewhere
C1_Witness ==
  /\ Returned
  /\ student.enrolled_courses # <<>>
  /\ \E i \in DOMAIN result.recs : result.recs[i].course.prerequisites # <<>>

\* C2: for N >= 0 recommend returns exactly min(N, number of eligible items)
\* recommendations in non-increasing score order, and no eligible item that was
\* left out scores strictly higher than a returned one.
C2_TopN ==
  Returned =>
    /\ Len(result.recs) = Min(request.n, Len(get_available_courses(student)))
    /\ \A i, j \in DOMAIN result.recs :
         i < j => result.recs[i].score >= result.recs[j].score
    /\ {ranked[i].course.name : i \in DOMAIN ranked} = AvailableNames(student)
    /\ \A j \in DOMAIN ranked :
         ranked[j].course.name \notin RecNames =>
           \A i \in DOMAIN result.recs : ranked[j].score <= result.recs[i].score

\* a request that leaves an eligible item out, with two different scores returned
C2_Witness ==
  /\ Returned
  /\ Len(result.recs) = 2
  /\ Len(ranked) > 2
  /\ result.recs[1].score > result.recs[2].score

\* C3 as stated: two returned recommendations with equal score appear in
\* ascending order of course name.
C3_TiesByName ==
  Returned =>
    \A i, j \in DOMAIN result.recs :
      (i < j /\ result.recs[i].score = result.recs[j].score) =>
        NameRank(result.recs[i].course.name) < NameRank(result.recs[j].course.name)

\* C3 amended: two returned recommendations with equal score appear in the
\* order their courses have in the catalog (the sort is stable).
C3_TiesByCatalogOrder ==
  Returned =>
    \A i, j \in DOMAIN result.recs :
      (i < j /\ result.recs[i].score = result.recs[j].score) =>
        CatalogIndex(result.recs[i].course.name) < CatalogIndex(result.recs[j].course.name)

\* a tie between two returned recommendations of an ml ranking that also
\* holds another score
C3_Witness ==
  /\ Returned
  /\ request.strategy = "ml"
  /\ Len(result.recs) = 2
  /\ result.recs[1].score = result.recs[2].score
  /\ \E j \in DOMAIN ranked : ranked[j].score # result.recs[1].score

\* C5: when the eligibility filter leaves no candidate, recommend returns the
\* empty list and raises no error, in every strategy mode.
C5_EmptyPool ==
  (~Idle /\ get_available_courses(student) = <<>>) =>
    result = [status |-> "list", recs |-> <<>>]

\* an empty pool in semantic mode while the first provider call would fail
C5_Witness ==
  /\ ~Idle
  /\ get_available_courses(student) = <<>>
  /\ request.strategy = "semantic"
  /\ request.failAt = 1
  /\ student.completed_courses # <<>>

\* C6: the confidence of every returned recommendation lies in [0.1, 0.95],
\* whatever the score (0, 1, or outside [0,1]).
C6_ConfidenceRange ==
  Returned =>
    \A i \in DOMAIN result.recs :
      /\ result.recs[i].confidence >= SCALE \div 10
      /\ result.recs[i].confidence <= (95 * SCALE) \div 100

\* a returned recommendation whose score is above 1
C6_Witness ==
  /\ Returned
  /\ \E i \in DOMAIN result.recs : result.recs[i].score > SCALE

\* C7: in hybrid mode each score is 0.40 x semantic + 0.35 x predictive +
\* 0.25 x collaborative of the item's per-strategy scores, without
\* renormalization, and the three default weights sum to 1.0.
C7_Blend ==
  /\ weights.semantic + weights.ml_prediction + weights.collaborative = 100
  /\ (Returned /\ request.strategy = "hybrid") =>
       \A i \in DOMAIN result.recs :
         LET d == result.recs[i].details IN
           /\ result.recs[i].score =
                (40 * d.semantic + 35 * d.ml_prediction + 25 * d.collaborative) \div 100
           /\ d.combined = result.recs[i].score

\* a hybrid recommendation whose three per-strategy scores all differ
C7_Witness ==
  /\ Returned
  /\ request.strategy = "hybrid"
  /\ \E i \in DOMAIN result.recs :
       LET d == result.recs[i].details IN
         /\ d.semantic # d.ml_prediction
         /\ d.ml_prediction # d.collaborative
         /\ d.semantic # d.collaborative
         /\ d.semantic > 0

C9_PredictionUnavailable ==
  /\ (\E i \in DOMAIN predictor_calls : request.pred[predictor_calls[i]] = "raise")
       => Returned
  /\ (Returned /\ request.strategy \in {"ml", "hybrid"}) =>
       \A i \in DOMAIN result.recs :
         LET rec == result.recs[i]
             outcome == request.pred[rec.course.name]
             predictive == IF request.strategy = "ml" THEN rec.score
                           ELSE rec.details.ml_prediction
         IN  /\ outcome = "raise" =>
                  /\ predictive = (5 * SCALE) \div 10
                  /\ request.strategy = "ml" => rec.details.note = "Prediction unavailable"
             /\ outcome = "ok" =>
                  predictive =
                    (predict_performance(student, rec.course.name, "ok").predicted_grade
                       * SCALE) \div (100 * GRADE_SCALE)

\* an ml request where the predictor raised for one returned candidate and
\* answered for another
C9_Witness ==
  /\ Returned
  /\ request.strategy = "ml"
  /\ \E i, j \in DOMAIN result.recs :
       /\ request.pred[result.recs[i].course.name] = "raise"
       /\ request.pred[result.recs[j].course.name] = "ok"
       /\ result.recs[j].score # (5 * SCALE) \div 10

DifficultyRank(course) ==
  CASE course.difficulty = "beginner" -> 1
    [] course.difficulty = "intermediate" -> 2
    [] OTHER -> 3

\* C10: for a student with no completed items, semantic mode scores each
\* eligible item 1.0 if beginner, 0.7 if intermediate, 0.4 if advanced, so the
\* list ranks beginner before intermediate before advanced items.
C10_ColdStart ==
  (Returned /\ request.strategy = "semantic" /\ student.completed_courses = <<>>) =>
    /\ \A i \in DOMAIN result.recs :
         LET rec == result.recs[i] IN
           /\ rec.course.difficulty = "beginner" => rec.score = SCALE
           /\ rec.course.difficulty = "intermediate" => rec.score = (7 * SCALE) \div 10
           /\ rec.course.difficulty = "advanced" => rec.score = (4 * SCALE) \div 10
    /\ \A i, j \in DOMAIN result.recs :
         i < j => DifficultyRank(result.recs[i].course) <= DifficultyRank(result.recs[j].course)

\* a cold-start semantic request that returned a beginner and an intermediate item
C10_Witness ==
  /\ Returned
  /\ request.strategy = "semantic"
  /\ student.completed_courses = <<>>
  /\ Len(result.recs) = 2
  /\ result.recs[1].course.difficulty # result.recs[2].course.difficulty

\* C11: the collaborative score of every eligible candidate is exactly 0.5,
\* for every student and after any sequence of earlier requests: in
\* collaborative mode every candidate is ranked with 0.5, and in hybrid mode
\* the collaborative part of every blend is 0.5.
C11_CollaborativeNeutral ==
  /\ find_similar_students(student) = <<>>
  /\ (Returned /\ request.strategy = "collaborative") =>
       /\ {ranked[i].course.name : i \in DOMAIN ranked} = AvailableNames(student)
       /\ \A i \in DOMAIN ranked :
            /\ ranked[i].score = (5 * SCALE) \div 10
            /\ ranked[i].strategy = "collaborative"
  /\ (Returned /\ request.strategy = "hybrid") =>
       \A i \in DOMAIN ranked : ranked[i].details.collaborative = (5 * SCALE) \div 10

\* a collaborative request of a student with a completed course, made after an
\* earlier request filled the embeddings cache, that ranked a candidate with
\* prerequisites
C11_Witness ==
  /\ Returned
  /\ request.strategy = "collaborative"
  /\ student.completed_courses # <<>>
  /\ embeddings_cache # EmptyCache
  /\ \E i \in DOMAIN result.recs : result.recs[i].course.name = "Advanced Python"

\* the list a single scorer gives for the request in progress (the cache holds
\* every vector the request asked for, so the semantic scorer answers from it)
ScorerList(strategy) ==
  CASE strategy = "semantic" ->
         semantic_recommendations(MkEnv(embeddings_cache, cache_file, 0, "none"), student,
                                  get_available_courses(student)).value
    [] strategy = "ml" ->
         ml_recommendations(student, get_available_courses(student), request.pred)
    [] OTHER -> collaborative_recommendations(student, get_available_courses(student))

\* C12: in each of the modes semantic, ml (predictive) and collaborative every
\* returned recommendation carries that single scorer's score and label for
\* the item, with no blending; only mode hybrid returns the blended score.
C12_SingleScorer ==
  /\ (Returned /\ request.strategy \in {"semantic", "ml", "collaborative"}) =>
       \E scorer \in {ScorerList(request.strategy)} :
         \A i \in DOMAIN result.recs :
           /\ result.recs[i].score = ScoreOf(scorer, result.recs[i].course.name)
           /\ result.recs[i].strategy =
                (IF request.strategy = "ml" THEN "ml_prediction" ELSE request.strategy)
           /\ result.recs[i].strategy # "hybrid"
  /\ (Returned /\ request.strategy = "hybrid") =>
       \A i \in DOMAIN result.recs :
         /\ result.recs[i].strategy = "hybrid"
         /\ result.recs[i].score =
              CombinedScore(result.recs[i].details.semantic,
                            result.recs[i].details.ml_prediction,
                            result.recs[i].details.collaborative)

\* an ml request that returned an item whose predictive score differs from the
\* blend of the three scores the scorers give for it
C12_Witness ==
  /\ Returned
  /\ request.strategy = "ml"
  /\ student.completed_courses # <<>>
  /\ \E i \in DOMAIN result.recs :
       LET name == result.recs[i].course.name IN
         result.recs[i].score #
           CombinedScore(ScoreOf(ScorerList("semantic"), name),
                         ScoreOf(ScorerList("ml"), name),
                         ScoreOf(ScorerList("collaborative"), name))

\* a lookup of a text in a manager that holds the given cache; the provider
\* would fail if it were called
Lookup(cache, text) == get_embedding(MkEnv(cache, cache_file, 1, "none"), text)

\* the lookup answers v from the cache, without a provider call
ServedFromCache(cache, text, v) ==
  /\ Lookup(cache, text).env.err = "none"
  /\ Lookup(cache, text).env.calls = <<>>
  /\ Lookup(cache, text).value = v

ManagerCalled == call.op \in {"get_embedding", "get_embeddings_batch"}

\* C13: after get_embedding stored vector v under key k, a lookup of k returns
\* v without a provider call in the same process, and, when the file was
\* written, in a new EmbeddingsManager that loads the cache file; after a
\* restart that read the file, what the call before it stored and persisted is
\* served from the cache.
C13_CacheRoundTrip ==
  /\ (call.op = "get_embedding" /\ call.stored) =>
       /\ ServedFromCache(embeddings_cache, call.texts[1], call.vectors[1])
       /\ call.ioFail = "none" =>
            ServedFromCache(load_cache(cache_file, FALSE), call.texts[1], call.vectors[1])
  /\ (call.op = "restart" /\ ~call.readFail) =>
       \A m \in call.put :
         \A text \in Texts :
           cache_key(text) = m[1] => ServedFromCache(embeddings_cache, text, m[2])

\* a restart that read the file written by a get_embedding call that had to
\* ask the provider
C13_Witness ==
  /\ call.op = "restart"
  /\ ~call.readFail
  /\ call.put # {}
  /\ embeddings_cache # EmptyCache

\* every text the manager can be asked for
AllTexts == Texts \cup {course_to_text(courses[i]) : i \in DOMAIN courses}

\* C14: two texts with the same first 100 characters share one cache key; once
\* one was embedded, a get_embedding or get_embeddings_batch call for the
\* other returns the cached vector (the first text's) and sends that text to
\* the provider in no call.
C14_KeyCollapse ==
  /\ \A t1, t2 \in AllTexts : t1.prefix = t2.prefix => cache_key(t1) = cache_key(t2)
  /\ \A k \in DOMAIN embeddings_cache :
       \E t \in AllTexts : cache_key(t) = k /\ embeddings_cache[k] = ProviderEmbedding(t)
  /\ ManagerCalled =>
       \A i \in DOMAIN call.texts :
         (\E t \in AllTexts : t.prefix = call.texts[i].prefix
                                /\ cache_key(t) \in DOMAIN call.cache_before) =>
           /\ call.op = "get_embedding" => call.err = "none" /\ provider_calls = <<>>
           /\ call.err = "none" =>
                call.vectors[i] = call.cache_before[cache_key(call.texts[i])]
           /\ \A c \in DOMAIN provider_calls : ~InList(call.texts[i], provider_calls[c])

\* a batch that asked the provider for one text and answered the other from
\* the vector cached for a different text with the same first 100 characters
C14_Witness ==
  /\ call.op = "get_embeddings_batch"
  /\ call.err = "none"
  /\ provider_calls # <<>>
  /\ \E i \in DOMAIN call.texts :
       /\ cache_key(call.texts[i]) \in DOMAIN call.cache_before
       /\ call.vectors[i] # ProviderEmbedding(call.texts[i])

\* C15: a failure to read the cache file at construction or to write it after
\* a cache fill makes no call fail: get_embedding and get_embeddings_batch
\* return the vectors unless the provider fails, every text of the call is
\* then served from memory, a restart yields an empty cache when the read
\* fails, and recommend returns a list.
C15_CacheIONonFatal ==
  /\ (ManagerCalled /\ call.failAt = 0) =>
       /\ call.err = "none"
       /\ Len(call.vectors) = Len(call.texts)
       /\ \A i \in DOMAIN call.texts :
            ServedFromCache(embeddings_cache, call.texts[i],
                            embeddings_cache[cache_key(call.texts[i])])
       /\ call.op = "get_embedding" =>
            ServedFromCache(embeddings_cache, call.texts[1], call.vectors[1])
  /\ (call.op = "restart" /\ call.readFail) => embeddings_cache = EmptyCache
  /\ (~Idle /\ request.failAt = 0) => result.status = "list"

\* a get_embedding call in a process that could not read its cache file, which
\* asked the provider and then could not write the file
C15_Witness ==
  /\ call.op = "get_embedding"
  /\ call.stored
  /\ call.ioFail = "write"
  /\ call.cache_before = EmptyCache
  /\ call.file_before.valid
  /\ call.file_before.data # {}

\* C16: get_embeddings_batch returns a list as long as its input whose i-th
\* entry is the vector for texts[i]: the vector cached under the text's key
\* before the call, else the provider's vector for that text; for every mix of
\* cached and uncached texts and for repeated texts.
C16_BatchOrder ==
  (call.op = "get_embeddings_batch" /\ call.err = "none") =>
    /\ Len(call.vectors) = Len(call.texts)
    /\ \A i \in DOMAIN call.texts :
         call.vectors[i] =
           IF cache_key(call.texts[i]) \in DOMAIN call.cache_before
           THEN call.cache_before[cache_key(call.texts[i])]
           ELSE ProviderEmbedding(call.texts[i])

\* a batch of an uncached text followed by a cached one
C16_Witness ==
  /\ call.op = "get_embeddings_batch"
  /\ call.err = "none"
  /\ Len(call.texts) = 2
  /\ cache_key(call.texts[1]) \notin DOMAIN call.cache_before
  /\ cache_key(call.texts[2]) \in DOMAIN call.cache_before
  /\ call.vectors[1] # call.vectors[2]

\* C17: when the provider call of get_embeddings_batch fails the call raises
\* and returns no vector, also for the texts that were cached, and the cache
\* and the cache file are as they were before the call.
C17_BatchAllOrNothing ==
  (call.op = "get_embeddings_batch" /\ call.failAt = 1 /\ provider_calls # <<>>) =>
    /\ call.err = "ProviderError"
    /\ call.vectors = <<>>
    /\ embeddings_cache = call.cache_before
    /\ cache_file = call.file_before

\* a failed batch of a cached and an uncached text
C17_Witness ==
  /\ call.op = "get_embeddings_batch"
  /\ call.err = "ProviderError"
  /\ call.cache_before # EmptyCache
  /\ \E i, j \in DOMAIN call.texts :
       /\ cache_key(call.texts[i]) \in DOMAIN call.cache_before
       /\ cache_key(call.texts[j]) \notin DOMAIN call.cache_before

\* C18: a recommend request ends either in a (possibly empty) ranked list or
\* in one error; in an error exactly when a provider call of the request
\* failed, that call is the last provider call of the request (no retry), and
\* the route reports the error as one HTTP 500 service error.
C18_ListOrError ==
  /\ ~Idle => result.status \in {"list", "error"}
  /\ result.status = "list" =>
       (request.failAt = 0 \/ request.failAt > Len(provider_calls))
  /\ result.status = "error" =>
       /\ result.recs = <<>>
       /\ provider_calls # <<>>
       /\ request.failAt = Len(provider_calls)
       /\ get_recommendations(result).status_code = 500
       /\ get_recommendations(result).code = "RECOMMENDATION_ERROR"
       /\ get_recommendations(result).recommendations = <<>>

\* a hybrid request whose third provider call failed
C18_Witness ==
  /\ result.status = "error"
  /\ request.strategy = "hybrid"
  /\ Len(provider_calls) = 3
  /\ embeddings_cache # EmptyCache

\* C19: for vectors a and b of equal length cosine_similarity(a, b) equals
\* cosine_similarity(b, a) and lies in [0,1]; a negative cosine, and a zero
\* vector, give 0.
C19_CosineSymmetricUnit ==
  call.op = "cosine_similarity" =>
    /\ call.value = call.swapped
    /\ call.value >= 0
    /\ call.value <= SCALE
    /\ Dot(call.embedding1, call.embedding2) < 0 => call.value = 0
    /\ (Dot(call.embedding1, call.embedding1) = 0
          \/ Dot(call.embedding2, call.embedding2) = 0) => call.value = 0

\* a call for two different vectors with a negative dot product
C19_Witness ==
  /\ call.op = "cosine_similarity"
  /\ Len(call.embedding1) = 2
  /\ call.embedding1 # call.embedding2
  /\ Dot(call.embedding1, call.embedding2) < 0
  /\ call.value = 0

\* C20: calculate_status returns 'Critical Risk' when grade < 60 or attendance
\* < 70, otherwise 'At Risk' when grade < 75 or attendance < 85, otherwise
\* 'Good Standing'; the reasons hold 'Academic Struggle' exactly when grade <
\* 75 and 'Attendance Warning' exactly when attendance < 85, so they are empty
\* exactly when the status is 'Good Standing'.
C20_StatusLogic ==
  call.op = "calculate_status" =>
    LET g == call.avg_grade
        a == call.attendance_pct
    IN  /\ call.status = "Critical Risk" <=> (g < 60 \/ a < 70)
        /\ call.status = "At Risk" <=> (~(g < 60 \/ a < 70) /\ (g < 75 \/ a < 85))
        /\ call.status = "Good Standing" <=> ~(g < 75 \/ a < 85)
        /\ InList("Academic Struggle", call.reasons) <=> g < 75
        /\ InList("Attendance Warning", call.reasons) <=> a < 85
        /\ Len(call.reasons) <= 2
        /\ call.reasons = <<>> <=> call.status = "Good Standing"

\* a critical status for the attendance alone, at the boundary of the grade
C20_Witness ==
  /\ call.op = "calculate_status"
  /\ call.avg_grade = 75
  /\ call.attendance_pct = 69
  /\ call.status = "Critical Risk"
  /\ call.reasons = <<"Attendance Warning">>

\* max(0.1, min(0.95, 1.2 x s)) without rounding
UnroundedConfidence(score) ==
  Max(SCALE \div 10, Min((95 * SCALE) \div 100, (score * 12) \div 10))

\* C21 as stated: the confidence of a recommendation with score s equals
\* max(0.1, min(0.95, 1.2 x s)) exactly.
C21_ConfidenceExact ==
  Returned =>
    \A i \in DOMAIN result.recs :
      result.recs[i].confidence = UnroundedConfidence(result.recs[i].score)

\* C21 amended: the confidence of a recommendation with score s equals
\* max(0.1, min(0.95, 1.2 x s)) rounded to two decimals.
C21_ConfidenceRounded ==
  Returned =>
    \A i \in DOMAIN result.recs :
      /\ result.recs[i].confidence = Round2(UnroundedConfidence(result.recs[i].score))
      /\ result.recs[i].confidence % (SCALE \div 100) = 0

\* a returned recommendation whose confidence was changed by the rounding
C21_Witness ==
  /\ Returned
  /\ \E i \in DOMAIN result.recs :
       result.recs[i].confidence # UnroundedConfidence(result.recs[i].score)

\* the cosine similarity of two catalog courses, from the provider's vectors
CourseCosine(name1, name2) ==
  cosine_similarity(ProviderEmbedding(course_to_text(CatalogCourse(name1))),
                    ProviderEmbedding(course_to_text(CatalogCourse(name2))))

\* the sum, over the completed items that are catalog courses, of the cosine
\* similarity with the candidate
SimilaritySum(candidate) ==
  SumSeq([k \in DOMAIN student.completed_courses |->
            IF InCatalog(student.completed_courses[k])
            THEN CourseCosine(student.completed_courses[k], candidate)
            ELSE 0])

CatalogCompleted == SelectSeq(student.completed_courses, InCatalog)

\* C22 as stated: for a student with a completed item, the semantic score of
\* each candidate is the mean, over all the completed items, of the cosine
\* similarity between the completed item and the candidate.
C22_MeanOverAllCompleted ==
  (Returned /\ request.strategy = "semantic" /\ student.completed_courses # <<>>) =>
    \A i \in DOMAIN ranked :
      ranked[i].score =
        SimilaritySum(ranked[i].course.name) \div Len(student.completed_courses)

\* C22 amended: the mean is taken over the completed items that are catalog
\* courses (the others are skipped), and the score is 0.0 when none is.
C22_MeanOverCatalogCompleted ==
  (Returned /\ request.strategy = "semantic" /\ student.completed_courses # <<>>) =>
    /\ {ranked[i].course.name : i \in DOMAIN ranked} = AvailableNames(student)
    /\ \A i \in DOMAIN ranked :
         ranked[i].score =
           IF CatalogCompleted = <<>> THEN 0
           ELSE SimilaritySum(ranked[i].course.name) \div Len(CatalogCompleted)

\* a semantic request of a student with two completed catalog courses that
\* are not equally similar to a ranked candidate
C22_Witness ==
  /\ Returned
  /\ request.strategy = "semantic"
  /\ Len(CatalogCompleted) = 2
  /\ \E i \in DOMAIN ranked :
       /\ CourseCosine(student.completed_courses[1], ranked[i].course.name)
            # CourseCosine(student.completed_courses[2], ranked[i].course.name)
       /\ ranked[i].score > 0

\* every entry of the cache is still there, with its vector, after the step
EntriesKept ==
  \A k \in DOMAIN embeddings_cache :
    k \in DOMAIN embeddings_cache' /\ embeddings_cache'[k] = embeddings_cache[k]

\* C23 as stated: within a process no operation of the manager removes an
\* entry of the in-memory cache or changes its vector.
C23_AppendOnly ==
  [][call'.op # "restart" => EntriesKept]_vars

\* the last text of a batch that has the key of texts[i]
LastWithKey(texts, i) ==
  texts[CHOOSE j \in DOMAIN texts :
          /\ cache_key(texts[j]) = cache_key(texts[i])
          /\ \A l \in DOMAIN texts : cache_key(texts[l]) = cache_key(texts[i]) => l <= j]

\* the vector stored for a new key is the provider's vector for the text, in a
\* batch for the last text of the batch with that key
VectorStored ==
  (ManagerCalled /\ call.err = "none") =>
    \A i \in DOMAIN call.texts :
      cache_key(call.texts[i]) \notin DOMAIN call.cache_before =>
        embeddings_cache[cache_key(call.texts[i])] =
          ProviderEmbedding(LastWithKey(call.texts, i))

\* C23 amended: within a process every operation but clear_cache keeps each
\* entry of the in-memory cache and its vector; clear_cache empties the cache
\* and deletes the file; the vector stored for a new key is the provider's
\* vector for the last text of the call with that key.
C23_AppendOnlyUntilCleared ==
  /\ []VectorStored
  /\ [][/\ call'.op \notin {"restart", "clear_cache"} => EntriesKept
        /\ call'.op = "clear_cache" =>
             embeddings_cache' = EmptyCache /\ cache_file' = NoFile]_vars

\* clear_cache was called on a manager that held entries and had written its file
C23_Witness ==
  /\ call.op = "clear_cache"
  /\ call.cache_before # EmptyCache
  /\ call.file_before.valid
  /\ embeddings_cache = EmptyCache

\* C25: one get_embeddings_batch call calls the provider at most once, with
\* exactly the texts whose key was not cached when the call began, in input
\* order, and not at all when every text is cached or the input is empty.
C25_OneProviderCall ==
  call.op = "get_embeddings_batch" =>
    LET misses == SelectSeq(call.texts,
                            LAMBDA t : cache_key(t) \notin DOMAIN call.cache_before)
    IN  /\ Len(provider_calls) <= 1
        /\ misses = <<>> => provider_calls = <<>> /\ call.err = "none"
        /\ misses # <<>> => provider_calls = <<misses>>

\* a batch of a cached text followed by an uncached one, which asked the
\* provider for the second alone
C25_Witness ==
  /\ call.op = "get_embeddings_batch"
  /\ Len(call.texts) = 2
  /\ cache_key(call.texts[1]) \in DOMAIN call.cache_before
  /\ provider_calls = << <<call.texts[2]>> >>

FileKeys == {m[1] : m \in cache_file.data}

\* the entries of a manager's cache that the file does not hold
Lag(w) == Cardinality(DOMAIN writers[w].cache \ FileKeys)

\* C24 as stated: each insertion into the in-memory cache is followed by a
\* write of the file before the next insertion, so the file never lags the
\* cache by more than one entry, in get_embedding and in get_embeddings_batch.
C24_WriteThroughPerEntry ==
  \A w \in DOMAIN writers :
    /\ Lag(w) <= 1
    /\ writers[w].inserted <= 1

\* C24 amended: the file is written once per call, after the last insertion
\* of the call: between calls the file holds the cache, in get_embedding the
\* file lags by at most one entry, and in get_embeddings_batch by at most the
\* entries the call has inserted so far.
C24_WriteThroughPerCall ==
  \A w \in DOMAIN writers :
    /\ writers[w].pc \in {"idle", "save"} => writers[w].pending = <<>>
    /\ writers[w].pc = "idle" => load_cache(cache_file, FALSE) = writers[w].cache
    /\ writers[w].op = "get_embedding" => writers[w].inserted <= 1
    /\ writers[w].pc # "unbuilt" => Lag(w) <= writers[w].inserted
    /\ writers[w].inserted <= MaxBatch

\* a batch that has inserted two entries and has not yet written the file
C24_Witness ==
  /\ "engine" \in DOMAIN writers
  /\ writers["engine"].op = "get_embeddings_batch"
  /\ writers["engine"].pc = "save"
  /\ Lag("engine") = 2

\* C26: no lock orders the writers of the cache file, and each write is a full
\* rewrite from the writer's own in-memory cache: after a writer's
\* _save_cache the file holds that writer's entries and no others, so every
\* entry of the file that the writer does not hold is gone.
C26_FullRewriteNoLock ==
  (call.op = "save_cache" /\ DOMAIN writers = TwoWriters) =>
    /\ cache_file.data = json_dump(writers[call.writer].cache)
    /\ \A m \in call.file_before.data :
         m[1] \notin DOMAIN writers[call.writer].cache => m \notin cache_file.data

\* a lost update: an entry the recommender's manager had persisted is absent
\* from the file after the engine's manager rewrote it, while the recommender's
\* manager is in the middle of another call
C26_Witness ==
  /\ DOMAIN writers = TwoWriters
  /\ call.op = "save_cache"
  /\ call.writer = "engine"
  /\ writers["recommender"].pc = "insert"
  /\ \E m \in call.file_before.data :
       /\ m[1] \in DOMAIN writers["recommender"].cache
       /\ m[1] \notin FileKeys

\* the reasoning sentence of a recommendation holds the phrase
Mentions(rec, text) ==
  /\ rec.reasoning.template = "Recommended because it's"
  /\ \E k \in DOMAIN rec.reasoning.reasons : rec.reasoning.reasons[k].text = text

\* C27: in hybrid mode the reasoning mentions similarity to completed courses
\* exactly when the semantic score is > 0.7, predicted good performance
\* exactly when the predictive score is > 0.75, and popularity among similar
\* students exactly when the collaborative score is > 0.5.
C27_HybridReasonRules ==
  (Returned /\ request.strategy = "hybrid") =>
    \A i \in DOMAIN result.recs :
      LET rec == result.recs[i] IN
        /\ Mentions(rec, "similar to courses you've completed")
             <=> rec.details.semantic > (7 * SCALE) \div 10
        /\ Mentions(rec, "you're predicted to perform well")
             <=> rec.details.ml_prediction > (75 * SCALE) \div 100
        /\ Mentions(rec, "popular among similar students")
             <=> rec.details.collaborative > (5 * SCALE) \div 10

\* a hybrid recommendation with a predictive score of exactly 0.75 and a
\* collaborative score of exactly 0.5 whose reasoning mentions the similarity
\* alone
C27_Witness ==
  /\ Returned
  /\ request.strategy = "hybrid"
  /\ \E i \in DOMAIN result.recs :
       LET rec == result.recs[i] IN
         /\ rec.details.ml_prediction = (75 * SCALE) \div 100
         /\ rec.details.collaborative = (5 * SCALE) \div 10
         /\ Mentions(rec, "similar to courses you've completed")
         /\ ~Mentions(rec, "you're predicted to perform well")
         /\ ~Mentions(rec, "popular among similar students")

\* none of the three score rules fires for the recommendation
NoScoreRuleFires(rec) ==
  rec.strategy = "hybrid" =>
    /\ rec.details.semantic <= (7 * SCALE) \div 10
    /\ rec.details.ml_prediction <= (75 * SCALE) \div 100
    /\ rec.details.collaborative <= (5 * SCALE) \div 10

\* the reasoning is 'Recommended based on {strategy} analysis'
GenericReasoning(rec) ==
  /\ rec.reasoning.template = "Recommended based on analysis"
  /\ rec.reasoning.reasons = <<>>
  /\ rec.reasoning.strategy = rec.strategy

\* C28 as stated: whenever none of the three score rules fires for a
\* recommendation, its reasoning is the generic sentence.
C28_GenericWhenNoScoreRule ==
  Returned =>
    \A i \in DOMAIN result.recs :
      NoScoreRuleFires(result.recs[i]) => GenericReasoning(result.recs[i])

\* C28 amended: the reasoning is the generic sentence exactly when no reason
\* at all was found: the recommendation is a hybrid one, none of the three
\* score rules fires, the course has no prerequisites and its difficulty is
\* neither beginner nor advanced.
C28_GenericWhenNoReason ==
  Returned =>
    \A i \in DOMAIN result.recs :
      LET rec == result.recs[i] IN
        GenericReasoning(rec) <=>
          /\ rec.strategy = "hybrid"
          /\ NoScoreRuleFires(rec)
          /\ rec.course.prerequisites = <<>>
          /\ rec.course.difficulty \notin {"beginner", "advanced"}

\* a hybrid recommendation of a course without prerequisites, of
\* intermediate difficulty, for which no score rule fires: its reasoning is
\* the generic sentence
C28_Witness ==
  /\ Returned
  /\ \E i \in DOMAIN result.recs :
       /\ result.recs[i].strategy = "hybrid"
       /\ NoScoreRuleFires(result.recs[i])
       /\ result.recs[i].course.prerequisites = <<>>
       /\ GenericReasoning(result.recs[i])

\* the step is a recommend call: a request starts and ends with a list or
\* an error
RecommendStep == Idle /\ result'.status # "none"

\* C29: a recommend call, whether it returns a list or fails, leaves the
\* student's completed, enrolled and grade data unchanged (the catalog and
\* the strategy weights are never assigned); what it changes is the
\* embedding cache, in memory and on file, and the record of the request.
C29_RecommendFrame ==
  [][RecommendStep =>
       /\ student' = student
       /\ writers' = writers
       /\ result'.status \in {"list", "error"}]_vars

\* a failed call that has called the provider and left an entry in the
\* cache and in the file
C29_Witness ==
  /\ result.status = "error"
  /\ provider_calls # <<>>
  /\ student.completed_courses # <<>>
  /\ embeddings_cache # EmptyCache
  /\ cache_file.exists

\* the same call once more, on the engine as the last call left it
Repeated ==
  recommend(MkEnv(embeddings_cache, cache_file, 0, "none"),
            student, request.n, request.strategy, request.pred)

\* C30: after a recommend call in semantic or hybrid mode has returned a
\* list, the same call once more makes no provider call and leaves the
\* in-memory cache and the cache file unchanged.
C30_RepeatIsCached ==
  (Returned /\ request.strategy \in {"semantic", "hybrid"}) =>
    \A again \in {Repeated} :
      /\ again.status = "list"
      /\ again.recs = result.recs
      /\ again.env.calls = <<>>
      /\ again.env.cache = embeddings_cache
      /\ again.env.file = cache_file

\* a call that had to call the provider returned a list, and its repetition
\* calls nobody
C30_Witness ==
  /\ Returned
  /\ request.strategy \in {"semantic", "hybrid"}
  /\ provider_calls # <<>>
  /\ result.recs # <<>>
  /\ Repeated.env.calls = <<>>

====
